---- MODULE Spec2Model ----
(***************************************************************************)
(* Segmented-mesh analysis of BuildNet3D-dataset:                          *)
(*   post_process_segmentation.color_quantization,                         *)
(*   mesh_tools.mesh_utils.triangle_face_normals / check_angles,           *)
(*   mesh_tools.mesh_utils.find_if_line_and_plane_intersect,               *)
(*   mesh_tools.segmented_3D_model.Segmented3DModel and BuildingWall,      *)
(*   blender_scripts.dataset.Dataset._read_segmentation_info,              *)
(*   buildings.composed_building.ComposedBuilding._remove_overlap_faces.   *)
(*                                                                         *)
(* Numbers are integers.  Coordinates of the meshes are even integers and  *)
(* the faces are axis aligned or degenerate, but for one wall askew to the *)
(* axes and one slab that is all but level; centres and magnitudes are     *)
(* whole numbers, unit normals are kept as whole numbers over their        *)
(* length, ratios are kept as reduced fractions, and the IEEE results of a *)
(* division by zero (inf, nan) are kept as such.                           *)
(***************************************************************************)
EXTENDS Integers, Sequences, FiniteSets, TLC

\* ------------------------------------------------------------------ bounds
MaxPixels == 2
MaxPalette == 2
MaxTfnFaces == 2
MaxFaces == 3
MaxLines == 2
MaxClasses == 2
MaxVolumes == 6

\* ----------------------------------------------------------------- helpers
Range(s) == {s[i] : i \in DOMAIN s}

SeqsUpTo(S, n) == UNION {[1..k -> S] : k \in 0..n}

Abs(x) == IF x < 0 THEN -x ELSE x

Min(S) == CHOOSE x \in S : \A y \in S : x <= y

Max(S) == CHOOSE x \in S : \A y \in S : y <= x

RECURSIVE SumSeq(_)
SumSeq(s) == IF s = <<>> THEN 0 ELSE s[1] + SumSeq(Tail(s))

RECURSIVE GCD(_, _)
GCD(a, b) == IF b = 0 THEN a ELSE GCD(b, a % b)

\* the subsequence of s at the positions satisfying Keep(_), in order
RECURSIVE SelectIdx(_, _, _)
SelectIdx(s, Keep(_), i) ==
    IF i > Len(s) THEN <<>>
    ELSE (IF Keep(i) THEN <<s[i]>> ELSE <<>>) \o SelectIdx(s, Keep, i + 1)

\* a set of integers as the increasing sequence of its elements
RECURSIVE SortedSeq(_)
SortedSeq(S) ==
    IF S = {} THEN <<>> ELSE <<Min(S)>> \o SortedSeq(S \ {Min(S)})

\* ------------------------------------------------------------ 3-vectors
Dot(a, b) == a[1] * b[1] + a[2] * b[2] + a[3] * b[3]

Cross(a, b) ==
    << a[2] * b[3] - a[3] * b[2],
       a[3] * b[1] - a[1] * b[3],
       a[1] * b[2] - a[2] * b[1] >>

Sub(a, b) == << a[1] - b[1], a[2] - b[2], a[3] - b[3] >>

Add(a, b) == << a[1] + b[1], a[2] + b[2], a[3] + b[3] >>

Neg(a) == << -a[1], -a[2], -a[3] >>

\* np.linalg.norm of a vector of whole numbers.  The vectors of the model
\* have a length that is a whole number, or one so little above a whole
\* number k that the single precision floats of a .ply file give k: the sum
\* of squares 4^2 + 16384^2 rounds to 2^28 and its root is 16384.
Norm(a) ==
    CHOOSE k \in 0..(Abs(a[1]) + Abs(a[2]) + Abs(a[3])) :
        k * k <= Dot(a, a) /\ Dot(a, a) < (k + 1) * (k + 1)

\* numpy's float division x / y: a reduced fraction, or inf / nan when y = 0
NpDivide(x, y) ==
    IF y = 0
    THEN (IF x = 0 THEN [kind |-> "nan", n |-> 0, d |-> 0]
          ELSE [kind |-> "inf", n |-> (IF x > 0 THEN 1 ELSE -1), d |-> 0])
    ELSE LET g == GCD(Abs(x), Abs(y))
             s == IF y < 0 THEN -1 ELSE 1
         IN  [kind |-> "num", n |-> (s * x) \div g, d |-> (s * y) \div g]

VARIABLES
    \* one call of color_quantization followed by a second call on its result
    q_pc, q_arr, q_pal, q_out, q_out2, q_err,
    \* one call of triangle_face_normals
    t_pc, t_in, t_face_normals, t_angle_check, t_angle_check_2, t_err, t_count,
    \* one Segmented3DModel: construction, then the wwr property
    pc, points, meshes, seg_map, mesh_df, window_graphs, building_walls,
    wwr, err,
    \* the vertex colors of the .ply file on disk, the windows found on each
    \* wall by _set_wwr_per_wall, and the areas computed by the wwr property
    ply_rgb, windows_on_wall, window_areas, all_window_area, all_wall_area,
    \* one call of find_if_line_and_plane_intersect
    f_pc, f_vertices_1, f_vertices_2, f_plane_points, f_domain, f_results,
    \* one call of Dataset._read_segmentation_info
    d_pc, d_seg_mapping, d_return_mapping, d_err,
    \* one call of ComposedBuilding._remove_overlap_faces: the list, the loop
    \* indices i and j, the volumes recolored and the <<base, joined>> pairs
    o_pc, volumes, vol_i, vol_j, o_colored, o_joined, o_err

qvars == << q_pc, q_arr, q_pal, q_out, q_out2, q_err >>
tvars == << t_pc, t_in, t_face_normals, t_angle_check, t_angle_check_2, t_err, t_count >>
mvars == << pc, points, meshes, seg_map, mesh_df, window_graphs, building_walls,
            wwr, err, ply_rgb, windows_on_wall, window_areas, all_window_area,
            all_wall_area >>
fvars == << f_pc, f_vertices_1, f_vertices_2, f_plane_points, f_domain, f_results >>
dvars == << d_pc, d_seg_mapping, d_return_mapping, d_err >>
ovars == << o_pc, volumes, vol_i, vol_j, o_colored, o_joined, o_err >>
vars == << qvars, tvars, mvars, fvars, dvars, ovars >>

\* the calls that a specification does not run stay idle
QIdle ==
    /\ q_pc = "idle" /\ q_arr = <<>> /\ q_pal = <<>>
    /\ q_out = <<>> /\ q_out2 = <<>> /\ q_err = "none"

TIdle ==
    /\ t_pc = "idle" /\ t_in = <<>> /\ t_face_normals = <<>>
    /\ t_angle_check = <<>> /\ t_angle_check_2 = <<>>
    /\ t_err = "none" /\ t_count = 0

MIdle ==
    /\ pc = "idle" /\ points = <<>> /\ meshes = <<>> /\ seg_map = <<>>
    /\ mesh_df = <<>> /\ window_graphs = <<>> /\ building_walls = <<>>
    /\ wwr = [kind |-> "unset", n |-> 0, d |-> 0] /\ err = "none"
    /\ ply_rgb = <<>> /\ windows_on_wall = <<>> /\ window_areas = <<>>
    /\ all_window_area = 0 /\ all_wall_area = 0

FIdle ==
    /\ f_pc = "idle" /\ f_vertices_1 = <<>> /\ f_vertices_2 = <<>>
    /\ f_plane_points = <<>> /\ f_domain = <<>> /\ f_results = <<>>

DIdle ==
    /\ d_pc = "idle" /\ d_seg_mapping = <<>> /\ d_return_mapping = <<>>
    /\ d_err = "none"

OIdle ==
    /\ o_pc = "idle" /\ volumes = <<>> /\ vol_i = 0 /\ vol_j = 0
    /\ o_colored = {} /\ o_joined = {} /\ o_err = "none"

\* =================================================== color_quantization
\* the colors of the arrays and of the palettes; <<1,0,0>> is at the same
\* distance from <<0,0,0>> and <<2,0,0>>
ColorSet == { <<0, 0, 0>>, <<2, 0, 0>>, <<1, 0, 0>>, <<0, 2, 1>> }

\* pixel_dict: each distinct color of arr with the indices where it occurs
pixel_dict(arr) ==
    [p \in Range(arr) |-> {i \in DOMAIN arr : arr[i] = p}]

\* np.sum((mandatory_colors - pixel) ** 2, axis=1)
distances(mandatory_colors, pixel) ==
    [k \in DOMAIN mandatory_colors |->
        Dot(Sub(mandatory_colors[k], pixel), Sub(mandatory_colors[k], pixel))]

\* np.where(distances == np.min(distances))[0][0]
closest_last(dist) ==
    Max({k \in DOMAIN dist : dist[k] = Min(Range(dist))})

closest_farthest(dist) ==
    Min({k \in DOMAIN dist : dist[k] = Max(Range(dist))})

closest(dist) ==
    Min({k \in DOMAIN dist : dist[k] = Min(Range(dist))})

\* color_quantization(arr, mandatory_colors).  With no pixel the loop body
\* never runs and arr comes back; with a pixel and an empty palette the
\* subtraction of a (3,) array from a (0,) array raises ValueError, and so
\* does the subtraction from a palette with a color that has not three
\* values (its array has no 3 columns, or cannot be built).
color_quantization(arr, mandatory_colors) ==
    LET d == pixel_dict(arr) IN
    IF DOMAIN d = {} THEN [err |-> "none", arr |-> arr]
    ELSE IF mandatory_colors = <<>> THEN [err |-> "ValueError", arr |-> arr]
    ELSE IF \E k \in DOMAIN mandatory_colors : Len(mandatory_colors[k]) # 3
         THEN [err |-> "ValueError", arr |-> arr]
    ELSE [err |-> "none",
          arr |-> [i \in DOMAIN arr |->
                     LET p == CHOOSE q \in DOMAIN d : i \in d[q]
                     IN  mandatory_colors[closest(distances(mandatory_colors, p))]]]

QInit ==
    /\ q_pc = "start"
    /\ q_arr \in SeqsUpTo(ColorSet, MaxPixels)
    /\ q_pal \in SeqsUpTo(ColorSet, MaxPalette)
    /\ q_out = <<>> /\ q_out2 = <<>> /\ q_err = "none"
    /\ TIdle /\ MIdle /\ FIdle /\ DIdle /\ OIdle

\* the first call
Quantize ==
    /\ q_pc = "start"
    /\ LET r == color_quantization(q_arr, q_pal) IN
        /\ q_err' = r.err
        /\ q_out' = r.arr
        /\ q_pc' = IF r.err = "none" THEN "returned" ELSE "raised"
    /\ UNCHANGED << q_arr, q_pal, q_out2, tvars, mvars, fvars, dvars, ovars >>

\* the result of the first call quantized again with the same palette
Requantize ==
    /\ q_pc = "returned"
    /\ LET r == color_quantization(q_out, q_pal) IN
        /\ q_err' = r.err
        /\ q_out2' = r.arr
        /\ q_pc' = IF r.err = "none" THEN "returned2" ELSE "raised"
    /\ UNCHANGED << q_arr, q_pal, q_out, tvars, mvars, fvars, dvars, ovars >>

QNext == Quantize \/ Requantize

SpecQuant == QInit /\ [][QNext]_vars

\* squared Euclidean RGB distance
SqDist(a, b) ==
    (a[1] - b[1]) * (a[1] - b[1]) + (a[2] - b[2]) * (a[2] - b[2])
        + (a[3] - b[3]) * (a[3] - b[3])

\* C8: quantizing the result of a quantization again, with the same palette,
\* returns it unchanged, and an array whose every color is a palette entry
\* is returned unchanged.
C8_Idempotent ==
    /\ (q_pc = "returned2" => q_out2 = q_out)
    /\ (q_pc \in {"returned", "returned2"} /\ Range(q_arr) \subseteq Range(q_pal)
            => q_out = q_arr)

\* a quantization that changed a color has been quantized a second time
C8_Witness ==
    /\ q_pc = "returned2" /\ Len(q_pal) >= 2
    /\ \E i \in DOMAIN q_arr : q_out[i] # q_arr[i]

\* C9: every row is replaced by a palette entry at minimum squared distance
\* from it, the first such entry in palette order; equal input colors get
\* equal results; the number and order of rows is kept.
C9_Nearest ==
    q_pc \in {"returned", "returned2"} /\ q_pal # <<>> =>
        /\ Len(q_out) = Len(q_arr)
        /\ \A i \in DOMAIN q_arr :
              \E k \in DOMAIN q_pal :
                 /\ q_out[i] = q_pal[k]
                 /\ \A j \in DOMAIN q_pal :
                       /\ SqDist(q_pal[k], q_arr[i]) <= SqDist(q_pal[j], q_arr[i])
                       /\ j < k => SqDist(q_pal[k], q_arr[i]) < SqDist(q_pal[j], q_arr[i])
        /\ \A i, j \in DOMAIN q_arr : q_arr[i] = q_arr[j] => q_out[i] = q_out[j]

\* a color at the same minimum distance from two different palette entries
\* has been quantized
C9_Witness ==
    /\ q_pc = "returned"
    /\ \E i \in DOMAIN q_arr : \E j, k \in DOMAIN q_pal :
          /\ j < k /\ q_pal[j] # q_pal[k]
          /\ SqDist(q_pal[j], q_arr[i]) = SqDist(q_pal[k], q_arr[i])
          /\ \A l \in DOMAIN q_pal :
                SqDist(q_pal[j], q_arr[i]) <= SqDist(q_pal[l], q_arr[i])

\* C10: a call with an empty palette raises, whatever the array, and returns
\* nothing.
C10_EmptyPaletteFails ==
    q_pal = <<>> /\ q_pc # "start" => q_pc = "raised" /\ q_err # "none"


\* ================================================ triangle_face_normals
\* one face of a call: the vectors AB and AC of triangle ABC and the normals
\* of its three vertices.  With both windings of the triangle, every pattern
\* of dot products (A: positive, negative or zero; B, C: positive or
\* negative) occurs, and AB = AC gives the zero cross product.
TfnEdges == { <<1, 0, 0>>, <<0, 1, 0>> }

TfnFaces ==
    [ AB : TfnEdges, AC : TfnEdges,
      A_normal : { <<0, 0, 1>>, <<0, 0, -1>>, <<1, 0, 0>> },
      B_normal : { <<0, 0, 1>>, <<0, 0, -1>> },
      C_normal : { <<0, 0, 1>> } ]

\* np.stack([A_normal, B_normal, C_normal], axis=2), one triple per face
vertex_normals_of(in) ==
    [i \in DOMAIN in |-> << in[i].A_normal, in[i].B_normal, in[i].C_normal >>]

\* check_angles: per face and vertex, TRUE when the vertex normal is more than
\* 90 degrees from the face normal.  cos = dot / (|f| |v|); a zero divisor
\* gives nan, whose arccos is nan and compares FALSE; otherwise the angle
\* exceeds pi/2 exactly when the dot product is negative.
check_angles(face_normals, vertex_normals) ==
    [i \in DOMAIN face_normals |->
        [v \in 1..3 |->
            IF Norm(face_normals[i]) * Norm(vertex_normals[i][v]) = 0
            THEN FALSE
            ELSE Dot(face_normals[i], vertex_normals[i][v]) < 0]]

\* np.any(angle_check, axis=1)
any_axis1(angle_check) ==
    [i \in DOMAIN angle_check |-> \E v \in 1..3 : angle_check[i][v]]

\* np.all in the place of np.any
np_all(angle_check) ==
    angle_check # <<>> /\ \A i \in DOMAIN angle_check : \A v \in 1..3 : angle_check[i][v]

\* np.any(angle_check)
np_any(angle_check) ==
    \E i \in DOMAIN angle_check : \E v \in 1..3 : angle_check[i][v]

\* face_normals[mask, :] = face_normals[mask, :] * -1
flip(face_normals, mask) ==
    [i \in DOMAIN face_normals |->
        IF mask[i] THEN Neg(face_normals[i]) ELSE face_normals[i]]

\* count = np.sum(np.any(angle_check, axis=1)): the first check's faces
error_count(angle_check, angle_check_2) ==
    Cardinality({i \in DOMAIN angle_check : any_axis1(angle_check)[i]})

\* the flip is made on a copy of the rows: the second check sees it, the
\* array that is returned does not
triangle_face_normals_flip_lost(in) ==
    LET face_normals == [i \in DOMAIN in |-> Cross(in[i].AB, in[i].AC)]
        vertex_normals == vertex_normals_of(in)
        angle_check == check_angles(face_normals, vertex_normals)
        flipped == flip(face_normals, any_axis1(angle_check))
        angle_check_2 == check_angles(flipped, vertex_normals)
    IN  IF np_any(angle_check) /\ np_any(angle_check_2)
        THEN [err |-> "RuntimeError",
              count |-> error_count(angle_check, angle_check_2),
              face_normals |-> <<>>,
              angle_check |-> angle_check, angle_check_2 |-> angle_check_2]
        ELSE [err |-> "none", count |-> 0, face_normals |-> face_normals,
              angle_check |-> angle_check,
              angle_check_2 |-> IF np_any(angle_check) THEN angle_check_2 ELSE <<>>]

\* triangle_face_normals(AB, AC, A_normal, B_normal, C_normal)
triangle_face_normals(in) ==
    LET face_normals == [i \in DOMAIN in |-> Cross(in[i].AB, in[i].AC)]
        vertex_normals == vertex_normals_of(in)
        angle_check == check_angles(face_normals, vertex_normals)
        flipped == flip(face_normals, any_axis1(angle_check))
        angle_check_2 == check_angles(flipped, vertex_normals)
    IN  IF np_any(angle_check)
        THEN IF np_any(angle_check_2)
             THEN [err |-> "RuntimeError",
                   count |-> error_count(angle_check, angle_check_2),
                   face_normals |-> <<>>,
                   angle_check |-> angle_check, angle_check_2 |-> angle_check_2]
             ELSE [err |-> "none", count |-> 0, face_normals |-> flipped,
                   angle_check |-> angle_check, angle_check_2 |-> angle_check_2]
        ELSE [err |-> "none", count |-> 0, face_normals |-> face_normals,
              angle_check |-> angle_check, angle_check_2 |-> <<>>]

TInit ==
    /\ t_pc = "start"
    /\ t_in \in (SeqsUpTo(TfnFaces, MaxTfnFaces) \ {<<>>})
    /\ t_face_normals = <<>> /\ t_angle_check = <<>> /\ t_angle_check_2 = <<>>
    /\ t_err = "none" /\ t_count = 0
    /\ QIdle /\ MIdle /\ FIdle /\ DIdle /\ OIdle

\* a call that returns the face normals
TfnReturn ==
    /\ t_pc = "start"
    /\ LET r == triangle_face_normals(t_in) IN
        /\ r.err = "none"
        /\ t_face_normals' = r.face_normals
        /\ t_angle_check' = r.angle_check
        /\ t_angle_check_2' = r.angle_check_2
        /\ t_pc' = "returned"
    /\ UNCHANGED << t_in, t_err, t_count, qvars, mvars, fvars, dvars, ovars >>

\* a call that raises, with the count of its message
TfnRaise ==
    /\ t_pc = "start"
    /\ LET r == triangle_face_normals(t_in) IN
        /\ r.err # "none"
        /\ t_err' = r.err
        /\ t_count' = r.count
        /\ t_angle_check' = r.angle_check
        /\ t_angle_check_2' = r.angle_check_2
        /\ t_pc' = "raised"
    /\ UNCHANGED << t_in, t_face_normals, qvars, mvars, fvars, dvars, ovars >>

TNext == TfnReturn \/ TfnRaise

SpecNormals == TInit /\ [][TNext]_vars

\* the cross product of face i, reoriented once when a vertex normal has a
\* negative dot product with it
FlippedOnce(i) ==
    LET c == Cross(t_in[i].AB, t_in[i].AC)
        vn == << t_in[i].A_normal, t_in[i].B_normal, t_in[i].C_normal >>
    IN  IF \E v \in 1..3 : Dot(c, vn[v]) < 0 THEN Neg(c) ELSE c

\* the faces that still have a vertex normal more than 90 degrees from the
\* face normal after the single flip
StillUnresolved ==
    {i \in DOMAIN t_in :
        \E n \in {t_in[i].A_normal, t_in[i].B_normal, t_in[i].C_normal} :
            Dot(FlippedOnce(i), n) < 0}

\* C6: the call raises whenever a face is still unresolved after the flip,
\* and the count of the error is the number of faces still unresolved.
C6_RaisesWithUnresolvedCount ==
    /\ (t_pc # "start" /\ StillUnresolved # {} => t_pc = "raised")
    /\ (t_pc = "raised" => t_count = Cardinality(StillUnresolved))

\* the part of C6 that the code satisfies: the call raises exactly when a
\* face is still unresolved after the flip
C6_RaisesIffUnresolved ==
    t_pc # "start" => (t_pc = "raised" <=> StillUnresolved # {})

\* C7: when the call returns, every face normal has a non-negative dot
\* product with at least two of the three vertex normals of its face.
C7_NormalConsistency ==
    t_pc = "returned" =>
        \A i \in DOMAIN t_in :
            Cardinality({v \in 1..3 :
                Dot(t_face_normals[i], vertex_normals_of(t_in)[i][v]) >= 0}) >= 2

\* a call that flipped a face and returned
C7_Witness ==
    /\ t_pc = "returned"
    /\ \E i \in DOMAIN t_in :
          /\ t_face_normals[i] = Neg(Cross(t_in[i].AB, t_in[i].AC))
          /\ t_face_normals[i] # <<0, 0, 0>>


\* ====================================================== Segmented3DModel
\* ---- the inputs: a .ply model and a segmentation mapping
\* The segmentation mapping file, in file order.
SegmentationMapping ==
    << [name |-> "background", ID |-> 0, RGB |-> <<0, 0, 0>>],
       [name |-> "wall",       ID |-> 1, RGB |-> <<4, 0, 0>>],
       [name |-> "window",     ID |-> 2, RGB |-> <<0, 4, 0>>],
       [name |-> "roof",       ID |-> 3, RGB |-> <<0, 0, 4>>] >>

WallRGB == <<4, 0, 0>>
WindowRGB == <<0, 4, 0>>

\* The vertices of the .ply files: position, vertex normal and color.
\* 1-4: a wall on the plane x = 4; 5-8: a window on it, 8 sticking out;
\* 9-11: a wall of a second wing on the plane x = 0, facing the same way;
\* 12-14: a wall on the plane y = 4 (12 and 13 duplicate the positions of
\* 2 and 9); 15: a duplicate of 4 with the opposite normal; 16-17: with 8,
\* the front of the window, away from the wall.
PlyVertex(pos, normal, rgb) == [pos |-> pos, normal |-> normal, rgb |-> rgb]

PlyPoints ==
    << PlyVertex(<<4, 0, 0>>, <<1, 0, 0>>, WallRGB),
       PlyVertex(<<4, 4, 0>>, <<1, 0, 0>>, WallRGB),
       PlyVertex(<<4, 4, 4>>, <<1, 0, 0>>, WallRGB),
       PlyVertex(<<4, 0, 4>>, <<1, 0, 0>>, WallRGB),
       PlyVertex(<<4, 2, 2>>, <<1, 0, 0>>, WindowRGB),
       PlyVertex(<<4, 4, 2>>, <<1, 0, 0>>, WindowRGB),
       PlyVertex(<<4, 2, 4>>, <<1, 0, 0>>, WindowRGB),
       PlyVertex(<<6, 2, 2>>, <<1, 0, 0>>, WindowRGB),
       PlyVertex(<<0, 4, 0>>, <<1, 0, 0>>, WallRGB),
       PlyVertex(<<0, 8, 0>>, <<1, 0, 0>>, WallRGB),
       PlyVertex(<<0, 8, 4>>, <<1, 0, 0>>, WallRGB),
       PlyVertex(<<4, 4, 0>>, <<0, 1, 0>>, WallRGB),
       PlyVertex(<<0, 4, 0>>, <<0, 1, 0>>, WallRGB),
       PlyVertex(<<0, 4, 4>>, <<0, 1, 0>>, WallRGB),
       PlyVertex(<<4, 0, 4>>, <<-1, 0, 0>>, WallRGB),
       PlyVertex(<<6, 4, 2>>, <<1, 0, 0>>, WindowRGB),
       PlyVertex(<<6, 2, 4>>, <<1, 0, 0>>, WindowRGB) >>

\* The triangles a .ply file takes its faces from: two faces of the wall
\* x = 4, the wall of the second wing, the wall y = 4 (wound against its
\* vertex normals), a horizontal wall face, a wall face of no area, two
\* window faces, a face whose vertex normals point to both sides, and the
\* front face of the window.
PlyFaces ==
    << <<1, 2, 3>>, <<1, 3, 4>>, <<9, 10, 11>>, <<12, 14, 13>>, <<1, 2, 13>>,
       <<1, 2, 12>>, <<5, 6, 7>>, <<5, 6, 8>>, <<1, 2, 15>>, <<8, 16, 17>> >>

\* The colors one vertex of a file may carry instead of its own: the class
\* colors, a noisy wall color and the background color.
VertexColors ==
    { WallRGB, WindowRGB, <<0, 0, 4>>, <<3, 1, 0>>, <<0, 0, 0>> }

\* ---- _get_connected_meshes_list
\* the node ids of the faces of a slice (a sequence of row labels of df)
FaceNodes(df, f) == {df[f].ids[1], df[f].ids[2], df[f].ids[3]}

\* the nodes of the faces that touch S, and no further
Reach_one_step(df, slice, S) ==
    S \cup UNION {FaceNodes(df, f) :
                  f \in {g \in Range(slice) : FaceNodes(df, g) \cap S # {}}}

\* the nodes linked to S by the edges v1-v2, v2-v3, v3-v1 of the faces
RECURSIVE Reach(_, _, _)
Reach(df, slice, S) ==
    LET S2 == S \cup UNION {FaceNodes(df, f) :
                  f \in {g \in Range(slice) : FaceNodes(df, g) \cap S # {}}}
    IN  IF S2 = S THEN S ELSE Reach(df, slice, S2)

\* nx.connected_components in the order of the first face of each component
RECURSIVE ComponentsFrom(_, _, _)
ComponentsFrom(df, slice, i) ==
    IF i > Len(slice) THEN <<>>
    ELSE LET c == Reach(df, slice, FaceNodes(df, slice[i]))
             seen == \E j \in 1..(i - 1) : FaceNodes(df, slice[j]) \subseteq c
         IN  (IF seen THEN <<>> ELSE <<c>>) \o ComponentsFrom(df, slice, i + 1)

\* the slice taken as one component whatever its connectivity
one_component(df, mesh_df_slice) ==
    IF mesh_df_slice = <<>> THEN <<>>
    ELSE << UNION {FaceNodes(df, f) : f \in Range(mesh_df_slice)} >>

_get_connected_meshes_list(df, mesh_df_slice) ==
    ComponentsFrom(df, mesh_df_slice, 1)


\* ---- __init__, lines 101-112: the files are read, "background" is popped
pop_background(mapping) ==
    SelectIdx(mapping, LAMBDA i : mapping[i].name # "background", 1)

\* ---- _fix_vertex_colors
_fix_vertex_colors(pts, map) ==
    LET rgb_arr == [i \in DOMAIN pts |-> pts[i].rgb]
        rgb_fixed == color_quantization(rgb_arr, [k \in DOMAIN map |-> map[k].RGB])
    IN  [err |-> rgb_fixed.err,
         points |-> [i \in DOMAIN pts |-> [pts[i] EXCEPT !.rgb = rgb_fixed.arr[i]]]]

\* an entry labels the vertices that have its red value, whatever their
\* green and blue
_assign_classes_red_only(pts, map) ==
    [i \in DOMAIN pts |->
        LET hits == {k \in DOMAIN map : map[k].RGB[1] = pts[i].rgb[1]}
        IN  [pts[i] EXCEPT !.seg_class =
                IF hits = {} THEN "" ELSE map[Max(hits)].name]]

\* ---- _assign_classes: "" first, then every entry of the mapping in order
\* labels the vertices of exactly its color (a later entry overwrites)
_assign_classes(pts, map) ==
    [i \in DOMAIN pts |->
        LET hits == {k \in DOMAIN map : map[k].RGB = pts[i].rgb}
        IN  [pts[i] EXCEPT !.seg_class =
                IF hits = {} THEN "" ELSE map[Max(hits)].name]]

\* ---- _get_segmented_mesh_info
NaNVector == [nan |-> TRUE, v |-> <<0, 0, 0>>]

some_vertices_agree(pts, ids) ==
    pts[ids[1]].seg_class = pts[ids[2]].seg_class

vertices_agree(pts, ids) ==
    /\ pts[ids[1]].seg_class = pts[ids[2]].seg_class
    /\ pts[ids[2]].seg_class = pts[ids[3]].seg_class

_get_segmented_mesh_info(pts, faces) ==
    IF \A f \in DOMAIN faces : vertices_agree(pts, faces[f])
    THEN [err |-> "none",
          mesh_df |-> [f \in DOMAIN faces |->
                         [ids |-> faces[f],
                          seg_class |-> pts[faces[f][1]].seg_class,
                          face_normal |-> NaNVector,
                          face_normal_magnitude |-> 0]]]
    ELSE [err |-> "NotImplementedError", mesh_df |-> <<>>]

\* ---- _add_triangle_face_normals
\* face_normals / face_normals_magnitude: 0 / 0 is nan.  The unit normal
\* n / magnitude is kept as the whole numbers v it reduces to, over their
\* common denominator Norm(v): (1, 0, 0) is itself, (0.6, 0.8, 0) is
\* (3, 4, 0) over 5.
face_unit_normal(n, magnitude) ==
    IF magnitude = 0 THEN NaNVector
    ELSE LET g == GCD(GCD(Abs(n[1]), Abs(n[2])), Abs(n[3]))
         IN  [nan |-> FALSE, v |-> << n[1] \div g, n[2] \div g, n[3] \div g >>]

_add_triangle_face_normals(pts, df) ==
    LET in == [f \in DOMAIN df |->
                 [AB |-> Sub(pts[df[f].ids[2]].pos, pts[df[f].ids[1]].pos),
                  AC |-> Sub(pts[df[f].ids[3]].pos, pts[df[f].ids[1]].pos),
                  A_normal |-> pts[df[f].ids[1]].normal,
                  B_normal |-> pts[df[f].ids[2]].normal,
                  C_normal |-> pts[df[f].ids[3]].normal]]
        r == triangle_face_normals(in)
    IN  IF r.err # "none" THEN [err |-> r.err, mesh_df |-> df]
        ELSE [err |-> "none",
              mesh_df |-> [f \in DOMAIN df |->
                  [df[f] EXCEPT
                     !.face_normal = face_unit_normal(r.face_normals[f],
                                                      Norm(r.face_normals[f])),
                     !.face_normal_magnitude = Norm(r.face_normals[f])]]]

\* the rows of df of a class, as a sequence of row labels
rows_of_class(df, class) ==
    SelectIdx([f \in DOMAIN df |-> f], LAMBDA f : df[f].seg_class = class, 1)

\* a float column compared with != : nan differs from everything
NotEqual(x, axis, value) == x.nan \/ x.v[axis] # value * Norm(x.v)

\* only the first vertex of every face is gathered
min_max_first_vertex(pts, df, rows, axis) ==
    LET c == {pts[df[f].ids[1]].pos[axis] : f \in Range(rows)}
    IN  << Min(c), Max(c) >>

\* ---- BuildingWall.__init__ on the rows `rows` of df
min_max(pts, df, rows, axis) ==
    LET c == {pts[n].pos[axis] : n \in UNION {FaceNodes(df, f) : f \in Range(rows)}}
    IN  << Min(c), Max(c) >>

BuildingWall(pts, df, rows) ==
    LET normals == {df[f].face_normal : f \in Range(rows)}
        nunique(axis) == Cardinality({NpDivide(x.v[axis], Norm(x.v)) :
                                         x \in {y \in normals : ~y.nan}})
        domain == [axis \in 1..3 |-> min_max(pts, df, rows, axis)]
    IN  IF \E axis \in 1..3 : nunique(axis) # 1
        THEN [err |-> "RuntimeError"]
        ELSE [err |-> "none",
              faces |-> rows,
              domain |-> domain,
              center |-> [axis \in 1..3 |-> (domain[axis][1] + domain[axis][2]) \div 2],
              direction |-> df[rows[1]].face_normal.v,
              area |-> SumSeq([i \in DOMAIN rows |->
                                 df[rows[i]].face_normal_magnitude]) \div 2,
              wwr |-> [kind |-> "unset", n |-> 0, d |-> 0]]

\* ---- _get_building_walls
LexLess(a, b) ==
    LET x == [axis \in 1..3 |-> a[axis] * Norm(b)]
        y == [axis \in 1..3 |-> b[axis] * Norm(a)]
    IN  \/ x[1] < y[1]
        \/ x[1] = y[1] /\ x[2] < y[2]
        \/ x[1] = y[1] /\ x[2] = y[2] /\ x[3] < y[3]

\* the keys of a groupby, sorted
RECURSIVE SortedKeys(_)
SortedKeys(K) ==
    IF K = {} THEN <<>>
    ELSE LET m == CHOOSE a \in K : \A b \in K \ {a} : LexLess(a, b)
         IN  <<m>> \o SortedKeys(K \ {m})

\* wall_df: the wall rows whose face_normal_z is neither 1 nor -1
wall_df_rows(df) ==
    SelectIdx([f \in DOMAIN df |-> f],
              LAMBDA f : /\ df[f].seg_class = "wall"
                         /\ NotEqual(df[f].face_normal, 3, 1)
                         /\ NotEqual(df[f].face_normal, 3, -1), 1)

\* groupby(["face_normal_x", "face_normal_y", "face_normal_z"]): one group
\* per key, in key order; the rows with a nan key are in no group
groupby_normal(df, rows) ==
    LET keys == SortedKeys({df[f].face_normal.v :
                               f \in {g \in Range(rows) : ~df[g].face_normal.nan}})
    IN  [k \in DOMAIN keys |->
            SelectIdx(rows, LAMBDA i : /\ ~df[rows[i]].face_normal.nan
                                       /\ df[rows[i]].face_normal.v = keys[k], 1)]

\* the walls of one group
walls_of_group(pts, df, group) ==
    LET connected_components == _get_connected_meshes_list(df, group)
    IN  IF Len(connected_components) = 1
        THEN << BuildingWall(pts, df, group) >>
        ELSE [c \in DOMAIN connected_components |->
                BuildingWall(pts, df,
                    SelectIdx(group,
                        LAMBDA i : FaceNodes(df, group[i]) \subseteq connected_components[c],
                        1))]

RECURSIVE FlattenSeq(_)
FlattenSeq(ss) == IF ss = <<>> THEN <<>> ELSE ss[1] \o FlattenSeq(Tail(ss))

_get_building_walls(pts, df) ==
    LET groups == groupby_normal(df, wall_df_rows(df))
        walls == FlattenSeq([g \in DOMAIN groups |-> walls_of_group(pts, df, groups[g])])
    IN  IF \E w \in DOMAIN walls : walls[w].err # "none"
        THEN [err |-> "RuntimeError", walls |-> <<>>]
        ELSE [err |-> "none", walls |-> walls]


\* ---- find_if_line_and_plane_intersect
\* the extents are not looked at
in_domain_ignored(vertex, domain) == TRUE

in_domain(vertex, domain) ==
    \A axis \in 1..3 : vertex[axis] >= domain[axis][1] /\ vertex[axis] <= domain[axis][2]

\* t strictly between 0 and 1: a line that only touches the plane with one
\* end is not taken to cross it
crosses_strict(num, den) ==
    /\ num * den > 0
    /\ (IF den > 0 THEN num < den ELSE num > den)

\* t = -(n.p0 + d) / (n.du) compared with 0 and 1, n.du # 0
crosses(num, den) ==
    /\ num * den >= 0
    /\ (IF den > 0 THEN num <= den ELSE num >= den)

\* as soon as one line is not parallel to the plane, t is computed for every
\* line and decides; 0 / 0 is nan, which is neither below 0 nor above 1
find_if_line_and_plane_intersect_retest(vertices_1, vertices_2, plane_points, domain) ==
    LET normal == Cross(Sub(plane_points[2], plane_points[1]),
                        Sub(plane_points[3], plane_points[1]))
        d == -Dot(normal, plane_points[1])
        vector_on_plane == [i \in DOMAIN vertices_1 |->
                               Dot(Sub(vertices_2[i], vertices_1[i]), normal) = 0]
    IN  IF \A i \in DOMAIN vertices_1 : vector_on_plane[i]
        THEN [i \in DOMAIN vertices_1 |->
                 /\ in_domain(vertices_1[i], domain)
                 /\ in_domain(vertices_2[i], domain)]
        ELSE [i \in DOMAIN vertices_1 |->
                 LET num == -(Dot(vertices_1[i], normal) + d)
                     den == Dot(Sub(vertices_2[i], vertices_1[i]), normal)
                 IN  IF den = 0 THEN num = 0 ELSE crosses(num, den)]

\* one flag per pair vertices_1[i], vertices_2[i].  np.isclose(x, 0,
\* atol=1e-6) of an integer x is x = 0.  A zero normal raises nothing (the
\* RuntimeError of line 119 is built and dropped).
find_if_line_and_plane_intersect(vertices_1, vertices_2, plane_points, domain) ==
    LET AB == Sub(plane_points[2], plane_points[1])
        AC == Sub(plane_points[3], plane_points[1])
        normal == Cross(AB, AC)
        d == -Dot(normal, plane_points[1])
        vector_on_plane == [i \in DOMAIN vertices_1 |->
                               Dot(Sub(vertices_2[i], vertices_1[i]), normal) = 0]
        line_on_plane_in_domain ==
            [i \in DOMAIN vertices_1 |->
                /\ vector_on_plane[i]
                /\ in_domain(vertices_1[i], domain)
                /\ in_domain(vertices_2[i], domain)]
    IN  IF \A i \in DOMAIN vertices_1 : vector_on_plane[i]
        THEN line_on_plane_in_domain
        ELSE [i \in DOMAIN vertices_1 |->
                IF vector_on_plane[i] THEN line_on_plane_in_domain[i]
                ELSE crosses(-(Dot(vertices_1[i], normal) + d),
                             Dot(Sub(vertices_2[i], vertices_1[i]), normal))]

\* ---- _get_windows_on_wall
\* windows_mesh_edges: the edges v1-v2 of every window face, then v2-v3,
\* then v3-v1
windows_mesh_edges(df) ==
    LET w == rows_of_class(df, "window")
        block(a, b) == [i \in DOMAIN w |-> << df[w[i]].ids[a], df[w[i]].ids[b] >>]
    IN  block(1, 2) \o block(2, 3) \o block(3, 1)

\* the third point is the corner opposite to domain_max: the three points
\* are on one line
plane_points_on_diagonal(wall) ==
    LET domain_max == [axis \in 1..3 |-> wall.domain[axis][2]]
        domain_min == [axis \in 1..3 |-> wall.domain[axis][1]]
    IN  << domain_max, wall.center, domain_min >>

\* wall.direction holds the whole numbers of the unit normal, hence the
\* division by their length; it is exact for the walls of the files here
plane_points_of(wall) ==
    LET domain_max == [axis \in 1..3 |-> wall.domain[axis][2]]
        plane_vector_1 == Sub(domain_max, wall.center)
        norm == Norm(wall.direction)
        product == Cross(plane_vector_1, wall.direction)
        plane_vector_2 == << product[1] \div norm, product[2] \div norm,
                             product[3] \div norm >>
    IN  << domain_max, wall.center, Add(wall.center, plane_vector_2) >>

\* the node ids of the edges flagged for the wall
wall_nodes_of(pts, df, wall) ==
    LET edges == windows_mesh_edges(df)
        intersecting_edges ==
            find_if_line_and_plane_intersect(
                [i \in DOMAIN edges |-> pts[edges[i][1]].pos],
                [i \in DOMAIN edges |-> pts[edges[i][2]].pos],
                plane_points_of(wall), wall.domain)
    IN  UNION {{edges[i][1], edges[i][2]} :
                  i \in {j \in DOMAIN edges : intersecting_edges[j]}}

\* a window is kept only when all of its nodes are wall nodes
_get_windows_on_wall_all_nodes(pts, df, graphs, wall) ==
    SelectIdx(graphs, LAMBDA i : graphs[i] \subseteq wall_nodes_of(pts, df, wall), 1)

_get_windows_on_wall(pts, df, graphs, wall) ==
    SelectIdx(graphs, LAMBDA i : wall_nodes_of(pts, df, wall) \cap graphs[i] # {}, 1)

\* ---- _get_window_area_from_component_graph
\* the product of the x and y extents, whatever the other products
window_area_first_product(pts, nodes) ==
    (Max({pts[n].pos[1] : n \in nodes}) - Min({pts[n].pos[1] : n \in nodes}))
        * (Max({pts[n].pos[2] : n \in nodes}) - Min({pts[n].pos[2] : n \in nodes}))

\* the largest pairwise product of the extents of the bounding box
_get_window_area_from_component_graph(pts, nodes) ==
    LET measurements ==
            [axis \in 1..3 |->
                 Max({pts[n].pos[axis] : n \in nodes}) - Min({pts[n].pos[axis] : n \in nodes})]
    IN  Max({measurements[1] * measurements[2],
             measurements[1] * measurements[3],
             measurements[2] * measurements[3]})

\* ---- BuildingWall.set_wwr and _set_wwr_per_wall
set_wwr(wall, windows_area) ==
    [wall EXCEPT !.wwr = NpDivide(windows_area, wall.area)]

\* every wall is given the area of all the windows of the building
_set_wwr_per_wall_all_windows(pts, df, graphs, walls) ==
    [w \in DOMAIN walls |->
        set_wwr(walls[w],
                SumSeq([i \in DOMAIN graphs |->
                    _get_window_area_from_component_graph(pts, graphs[i])]))]

_set_wwr_per_wall(pts, df, graphs, walls) ==
    [w \in DOMAIN walls |->
        LET windows_subgraph_list == _get_windows_on_wall(pts, df, graphs, walls[w])
            windows_area == [i \in DOMAIN windows_subgraph_list |->
                _get_window_area_from_component_graph(pts, windows_subgraph_list[i])]
        IN  set_wwr(walls[w], SumSeq(windows_area))]

\* ---- _get_all_wall_area, _get_all_window_area, wwr
\* the sum over every wall face, the horizontal ones included
all_wall_area_with_horizontal(df) ==
    LET walls == rows_of_class(df, "wall")
    IN  SumSeq([i \in DOMAIN walls |-> df[walls[i]].face_normal_magnitude]) \div 2

_get_all_wall_area(df) ==
    LET walls == rows_of_class(df, "wall")
        side_walls == SelectIdx(walls,
            LAMBDA i : \/ NotEqual(df[walls[i]].face_normal, 1, 0)
                       \/ NotEqual(df[walls[i]].face_normal, 2, 0), 1)
    IN  SumSeq([i \in DOMAIN side_walls |-> df[side_walls[i]].face_normal_magnitude]) \div 2

\* window_areas: one area per window graph, in order
window_areas_list(pts, graphs) ==
    [i \in DOMAIN graphs |-> _get_window_area_from_component_graph(pts, graphs[i])]

_get_all_window_area(pts, graphs) ==
    SumSeq(window_areas_list(pts, graphs))

wwr_property(pts, df, graphs) ==
    NpDivide(_get_all_window_area(pts, graphs), _get_all_wall_area(df))


\* ---- the construction of one Segmented3DModel, method by method
\* the vertex sets that carry another color: the last vertex of a face of
\* the file, or the three vertices of one face
Recolored(S) ==
    LET nodes(f) == {PlyFaces[f][1], PlyFaces[f][2], PlyFaces[f][3]}
    IN  {{PlyFaces[f][3]} : f \in S} \cup {nodes(f) : f \in S}

\* A .ply file: between one and MaxFaces of the triangles, in file order, and
\* the vertices, the last vertex of a face or a whole face of the file
\* carrying any of VertexColors instead of its own color.
MInit ==
    /\ pc = "start"
    /\ \E S \in {T \in SUBSET DOMAIN PlyFaces : Cardinality(T) \in 1..MaxFaces} :
         /\ meshes = [i \in 1..Cardinality(S) |-> PlyFaces[SortedSeq(S)[i]]]
         /\ \E V \in Recolored(S) : \E c \in VertexColors :
               points = [i \in DOMAIN PlyPoints |->
                           [pos |-> PlyPoints[i].pos,
                            normal |-> PlyPoints[i].normal,
                            rgb |-> IF i \in V THEN c ELSE PlyPoints[i].rgb,
                            seg_class |-> ""]]
    /\ ply_rgb = [i \in DOMAIN points |-> points[i].rgb]
    /\ seg_map = SegmentationMapping
    /\ mesh_df = <<>> /\ window_graphs = <<>> /\ building_walls = <<>>
    /\ wwr = [kind |-> "unset", n |-> 0, d |-> 0] /\ err = "none"
    /\ windows_on_wall = <<>> /\ window_areas = <<>>
    /\ all_window_area = 0 /\ all_wall_area = 0
    /\ QIdle /\ TIdle /\ FIdle /\ DIdle /\ OIdle

\* __init__, lines 101-112
LoadFiles ==
    /\ pc = "start"
    /\ seg_map' = pop_background(seg_map)
    /\ pc' = "loaded"
    /\ UNCHANGED << points, meshes, mesh_df, window_graphs, building_walls, wwr, err,
                    ply_rgb, windows_on_wall, window_areas, all_window_area,
                    all_wall_area, qvars, tvars, fvars, dvars, ovars >>

\* __init__, line 113
FixVertexColors ==
    /\ pc = "loaded"
    /\ LET r == _fix_vertex_colors(points, seg_map) IN
        /\ err' = r.err
        /\ points' = IF r.err = "none" THEN r.points ELSE points
        /\ pc' = IF r.err = "none" THEN "colors_fixed" ELSE "failed"
    /\ UNCHANGED << meshes, seg_map, mesh_df, window_graphs, building_walls, wwr,
                    ply_rgb, windows_on_wall, window_areas, all_window_area,
                    all_wall_area, qvars, tvars, fvars, dvars, ovars >>

\* __init__, line 114
AssignClasses ==
    /\ pc = "colors_fixed"
    /\ points' = _assign_classes(points, seg_map)
    /\ pc' = "classes_assigned"
    /\ UNCHANGED << meshes, seg_map, mesh_df, window_graphs, building_walls, wwr, err,
                    ply_rgb, windows_on_wall, window_areas, all_window_area,
                    all_wall_area, qvars, tvars, fvars, dvars, ovars >>

\* __init__, line 115
GetSegmentedMeshInfo ==
    /\ pc = "classes_assigned"
    /\ LET r == _get_segmented_mesh_info(points, meshes) IN
        /\ err' = r.err
        /\ mesh_df' = r.mesh_df
        /\ pc' = IF r.err = "none" THEN "mesh_info" ELSE "failed"
    /\ UNCHANGED << points, meshes, seg_map, window_graphs, building_walls, wwr,
                    ply_rgb, windows_on_wall, window_areas, all_window_area,
                    all_wall_area, qvars, tvars, fvars, dvars, ovars >>

\* __init__, line 116
AddTriangleFaceNormals ==
    /\ pc = "mesh_info"
    /\ LET r == _add_triangle_face_normals(points, mesh_df) IN
        /\ err' = r.err
        /\ mesh_df' = r.mesh_df
        /\ pc' = IF r.err = "none" THEN "normals" ELSE "failed"
    /\ UNCHANGED << points, meshes, seg_map, window_graphs, building_walls, wwr,
                    ply_rgb, windows_on_wall, window_areas, all_window_area,
                    all_wall_area, qvars, tvars, fvars, dvars, ovars >>

\* __init__, lines 117-118
GetWindowGraphs ==
    /\ pc = "normals"
    /\ window_graphs' = _get_connected_meshes_list(mesh_df, rows_of_class(mesh_df, "window"))
    /\ pc' = "windows"
    /\ UNCHANGED << points, meshes, seg_map, mesh_df, building_walls, wwr, err,
                    ply_rgb, windows_on_wall, window_areas, all_window_area,
                    all_wall_area, qvars, tvars, fvars, dvars, ovars >>

\* __init__, line 119
GetBuildingWalls ==
    /\ pc = "windows"
    /\ LET r == _get_building_walls(points, mesh_df) IN
        /\ err' = r.err
        /\ building_walls' = r.walls
        /\ pc' = IF r.err = "none" THEN "walls" ELSE "failed"
    /\ UNCHANGED << points, meshes, seg_map, mesh_df, window_graphs, wwr,
                    ply_rgb, windows_on_wall, window_areas, all_window_area,
                    all_wall_area, qvars, tvars, fvars, dvars, ovars >>

\* the constructor returns without the call of line 120
SetWwrPerWall_skipped ==
    /\ pc = "walls"
    /\ pc' = "constructed"
    /\ UNCHANGED << points, meshes, seg_map, mesh_df, window_graphs, building_walls,
                    wwr, err, ply_rgb, windows_on_wall, window_areas, all_window_area,
                    all_wall_area, qvars, tvars, fvars, dvars, ovars >>

\* __init__, line 120: the constructor returns
SetWwrPerWall ==
    /\ pc = "walls"
    /\ building_walls' = _set_wwr_per_wall(points, mesh_df, window_graphs, building_walls)
    /\ windows_on_wall' =
          [w \in DOMAIN building_walls |->
              _get_windows_on_wall(points, mesh_df, window_graphs, building_walls[w])]
    /\ pc' = "constructed"
    /\ UNCHANGED << points, meshes, seg_map, mesh_df, window_graphs, wwr, err,
                    ply_rgb, window_areas, all_window_area,
                    all_wall_area, qvars, tvars, fvars, dvars, ovars >>

\* the first read of the cached property wwr of a constructed model
Wwr ==
    /\ pc = "constructed"
    /\ wwr.kind = "unset"
    /\ all_wall_area' = _get_all_wall_area(mesh_df)
    /\ window_areas' = window_areas_list(points, window_graphs)
    /\ all_window_area' = _get_all_window_area(points, window_graphs)
    /\ wwr' = wwr_property(points, mesh_df, window_graphs)
    /\ UNCHANGED << pc, points, meshes, seg_map, mesh_df, window_graphs, building_walls,
                    err, ply_rgb, windows_on_wall, qvars, tvars, fvars, dvars, ovars >>

MNext ==
    \/ LoadFiles
    \/ FixVertexColors
    \/ AssignClasses
    \/ GetSegmentedMeshInfo
    \/ AddTriangleFaceNormals
    \/ GetWindowGraphs
    \/ GetBuildingWalls
    \/ SetWwrPerWall
    \/ Wwr

SpecModel == MInit /\ [][MNext]_vars


\* ---- the claims about the construction
\* the sum of the values of the function F
RECURSIVE SumOver(_)
SumOver(F) ==
    IF DOMAIN F = {} THEN 0
    ELSE LET x == CHOOSE y \in DOMAIN F : TRUE
         IN  F[x] + SumOver([z \in DOMAIN F \ {x} |-> F[z]])

Assembled == pc \notin {"idle", "start", "loaded", "colors_fixed", "classes_assigned"}

Partitioned == pc \in {"walls", "constructed"}

\* the classes carried by the three vertices of face f of the file
VertexClasses(f) == {points[meshes[f][v]].seg_class : v \in 1..3}

MixedFaces == {f \in DOMAIN meshes : Cardinality(VertexClasses(f)) > 1}

\* the faces of a class, and the wall faces by orientation
FacesOf(class) == {f \in DOMAIN mesh_df : mesh_df[f].seg_class = class}

HorizontalWallFaces ==
    {f \in FacesOf("wall") :
        /\ ~mesh_df[f].face_normal.nan
        /\ mesh_df[f].face_normal.v[3] \in {1, -1}}

\* the wall faces that have a direction, and it is not vertical
DirectedWallFaces ==
    {f \in FacesOf("wall") \ HorizontalWallFaces : ~mesh_df[f].face_normal.nan}

SharesVertex(f, g) ==
    \E a, b \in 1..3 : mesh_df[f].ids[a] = mesh_df[g].ids[b]

\* the faces of F linked to a face of G by a chain of faces of F in which
\* consecutive faces share a vertex id
RECURSIVE LinkedFaces(_, _)
LinkedFaces(F, G) ==
    LET G2 == G \cup {f \in F : \E g \in G : SharesVertex(f, g)}
    IN  IF G2 = G THEN G ELSE LinkedFaces(F, G2)

\* the wall patch of face f: the faces of its direction linked to it
WallPatch(f) ==
    LinkedFaces({g \in DirectedWallFaces :
                    mesh_df[g].face_normal = mesh_df[f].face_normal}, {f})

\* the area of the largest face of the bounding box of a set of vertices
Extent(nodes, axis) ==
    Max({points[n].pos[axis] : n \in nodes}) - Min({points[n].pos[axis] : n \in nodes})

LargestBoxFace(nodes) ==
    Max({Extent(nodes, p[1]) * Extent(nodes, p[2]) :
            p \in {<<1, 2>>, <<1, 3>>, <<2, 3>>}})

\* the value q is the ratio num / den of two integers, den # 0
IsRatio(q, num, den) == q.kind = "num" /\ q.d # 0 /\ q.n * den = num * q.d

\* twice the area of the wall faces whose unit normal has a non-zero x or y
TwiceSideWallArea ==
    SumOver([f \in {g \in FacesOf("wall") :
                        \/ mesh_df[g].face_normal.nan
                        \/ mesh_df[g].face_normal.v[1] # 0
                        \/ mesh_df[g].face_normal.v[2] # 0}
                |-> mesh_df[f].face_normal_magnitude])

TotalWindowArea ==
    SumOver([i \in DOMAIN window_graphs |-> LargestBoxFace(window_graphs[i])])

\* C1: the overall WWR of a constructed model is the sum of the areas of the
\* window components divided by the sum of the areas of the wall faces whose
\* unit normal has a non-zero x or y component.
C1_OverallWwr ==
    wwr.kind # "unset" /\ TwiceSideWallArea # 0 =>
        IsRatio(wwr, 2 * TotalWindowArea, TwiceSideWallArea)

\* the WWR of a model with a window, a side wall and a horizontal wall face
C1_Witness ==
    /\ wwr.kind = "num" /\ wwr.n > 0
    /\ HorizontalWallFaces # {}
    /\ Len(building_walls) >= 1

\* C2: after construction the wwr of every wall is the sum of the areas of
\* the window components assigned to it divided by its own area, and 0 when
\* no window is assigned to it.
C2_WallWwr ==
    pc = "constructed" =>
        \A w \in DOMAIN building_walls :
            LET wall == building_walls[w]
                assigned == _get_windows_on_wall(points, mesh_df, window_graphs, wall)
            IN  /\ IsRatio(wall.wwr,
                           SumOver([i \in DOMAIN assigned |-> LargestBoxFace(assigned[i])]),
                           wall.area)
                /\ (assigned = <<>> => wall.wwr.n = 0)

\* a building with a window, one wall that carries it and one that does not
C2_Witness ==
    /\ pc = "constructed"
    /\ \E w1, w2 \in DOMAIN building_walls :
          /\ building_walls[w1].wwr.n > 0
          /\ building_walls[w2].wwr.n = 0
    /\ window_graphs # <<>>

\* C3: the walls partition the wall faces whose normal_z is not +1 or -1:
\* each such face is in exactly one wall, and the faces of the walls
\* together with the horizontal wall faces are all the wall faces.
C3_WallPartition ==
    Partitioned =>
        /\ \A f \in FacesOf("wall") \ HorizontalWallFaces :
              Cardinality({w \in DOMAIN building_walls :
                              f \in Range(building_walls[w].faces)}) = 1
        /\ UNION {Range(building_walls[w].faces) : w \in DOMAIN building_walls}
              \cup HorizontalWallFaces = FacesOf("wall")

\* what C3 leaves of the partition for the faces that have a direction
C3_DirectedFacesPartitioned ==
    Partitioned =>
        /\ \A f \in DirectedWallFaces :
              Cardinality({w \in DOMAIN building_walls :
                              f \in Range(building_walls[w].faces)}) = 1
        /\ UNION {Range(building_walls[w].faces) : w \in DOMAIN building_walls}
              = DirectedWallFaces

\* C4: there is exactly one wall per direction and connected component of
\* the non-horizontal wall faces of that direction.
C4_OneWallPerPatch ==
    Partitioned =>
        /\ {Range(building_walls[w].faces) : w \in DOMAIN building_walls}
              = {WallPatch(f) : f \in DirectedWallFaces}
        /\ Len(building_walls) = Cardinality({WallPatch(f) : f \in DirectedWallFaces})

\* two walls of one direction that share no vertex, one of them of two faces
C4_Witness ==
    /\ Partitioned
    /\ \E w1, w2 \in DOMAIN building_walls :
          /\ w1 # w2
          /\ building_walls[w1].direction = building_walls[w2].direction
          /\ Len(building_walls[w1].faces) = 2

\* C5: face assembly raises exactly when a face has vertices of different
\* classes, and then there is no face table and no model; otherwise every
\* face has the class of its three vertices.
C5_MixedFacesRaise ==
    Assembled /\ err # "ValueError" =>
        /\ (pc = "failed" /\ err = "NotImplementedError") <=> MixedFaces # {}
        /\ MixedFaces # {} =>
              /\ mesh_df = <<>> /\ window_graphs = <<>> /\ building_walls = <<>>
              /\ wwr.kind = "unset"
        /\ MixedFaces = {} =>
              /\ Len(mesh_df) = Len(meshes)
              /\ \A f \in DOMAIN mesh_df : VertexClasses(f) = {mesh_df[f].seg_class}

\* a file with a face of one class and a face of two classes has failed
C5_Witness ==
    /\ pc = "failed" /\ err = "NotImplementedError"
    /\ MixedFaces # {} /\ MixedFaces # DOMAIN meshes

\* C11: a WWR whose denominator (the overall wall area, or the area of one
\* wall) is 0 is never produced: computing it raises, so every WWR that has
\* been computed is a number and its wall area is not 0.
C11_ZeroWallAreaRaises ==
    /\ wwr.kind = "unset" \/ (wwr.kind = "num" /\ all_wall_area # 0)
    /\ \A w \in DOMAIN building_walls :
          \/ building_walls[w].wwr.kind = "unset"
          \/ building_walls[w].wwr.kind = "num" /\ building_walls[w].area # 0


\* ==================================== find_if_line_and_plane_intersect
\* ---- one call of the function on its own
\* The planes of the calls, as three points: the plane x = 0 as
\* _get_windows_on_wall builds it for a wall (corner, center, a third
\* point), the plane y = 2, three points on one line, and one point three
\* times.
PlanePointSets ==
    { << <<0, 4, 4>>, <<0, 2, 2>>, <<0, 4, 0>> >>,
      << <<4, 2, 4>>, <<2, 2, 2>>, <<4, 2, 0>> >>,
      << <<0, 4, 4>>, <<0, 2, 2>>, <<0, 0, 0>> >>,
      << <<0, 2, 2>>, <<0, 2, 2>>, <<0, 2, 2>> >> }

\* The domains of the calls: the extents of a wall on the plane x = 0, and a
\* box that reaches from that plane to x = 2.
PlaneDomains ==
    { << <<0, 0>>, <<0, 4>>, <<0, 4>> >>,
      << <<0, 2>>, <<0, 4>>, <<0, 4>> >> }

\* The lines of the calls, as pairs of end points.  For the plane x = 0:
\* through the plane inside the extents, through it outside the extents,
\* starting on it, ending on it, stopping short of it, leading away from it,
\* lying in it inside the extents, lying in it and leaving the extents,
\* parallel to it at x = 2, of no length, and starting on it outside the
\* extents.
PlaneLines ==
    { << <<-2, 2, 2>>, <<2, 2, 2>> >>,
      << <<-2, 6, 2>>, <<2, 6, 2>> >>,
      << <<0, 2, 2>>, <<2, 2, 2>> >>,
      << <<2, 2, 2>>, <<0, 2, 2>> >>,
      << <<4, 2, 2>>, <<2, 2, 2>> >>,
      << <<2, 2, 2>>, <<4, 2, 2>> >>,
      << <<0, 2, 2>>, <<0, 4, 2>> >>,
      << <<0, 2, 2>>, <<0, 6, 2>> >>,
      << <<2, 2, 2>>, <<2, 4, 2>> >>,
      << <<0, 2, 2>>, <<0, 2, 2>> >>,
      << <<0, 6, 2>>, <<2, 6, 2>> >> }

FInit ==
    /\ f_pc = "start"
    /\ \E lines \in SeqsUpTo(PlaneLines, MaxLines) :
          /\ f_vertices_1 = [i \in DOMAIN lines |-> lines[i][1]]
          /\ f_vertices_2 = [i \in DOMAIN lines |-> lines[i][2]]
    /\ f_plane_points \in PlanePointSets
    /\ f_domain \in PlaneDomains
    /\ f_results = <<>>
    /\ QIdle /\ TIdle /\ MIdle /\ DIdle /\ OIdle

\* the call: it has no path that raises
FindIfLineAndPlaneIntersect ==
    /\ f_pc = "start"
    /\ f_results' = find_if_line_and_plane_intersect(f_vertices_1, f_vertices_2,
                                                      f_plane_points, f_domain)
    /\ f_pc' = "returned"
    /\ UNCHANGED << f_vertices_1, f_vertices_2, f_plane_points, f_domain,
                    qvars, tvars, mvars, dvars, ovars >>

FNext == FindIfLineAndPlaneIntersect

SpecPlane == FInit /\ [][FNext]_vars

\* the three plane points are on one line, or are one point
Collinear(pp) == Cross(Sub(pp[2], pp[1]), Sub(pp[3], pp[1])) = <<0, 0, 0>>

\* C12: a call whose three plane points are collinear or coincident raises
\* and returns no intersection result.
C12_DegeneratePlaneRaises ==
    f_pc \notin {"idle", "start"} /\ Collinear(f_plane_points) =>
        f_pc = "raised" /\ f_results = <<>>


\* ---- the assignment of the windows to the walls
\* the three edges of a triangle, as positions in its vertex ids
TriangleEdges == { <<1, 2>>, <<2, 3>>, <<3, 1>> }

\* the intersection test of the line from vertex a to vertex b with the
\* plane and extents of a wall
Flagged(wall, a, b) ==
    find_if_line_and_plane_intersect(<< points[a].pos >>, << points[b].pos >>,
                                     plane_points_of(wall), wall.domain)[1]

\* the vertex ids that end a flagged edge of a window face
FlaggedEndpoints(wall) ==
    UNION {{mesh_df[f].ids[e[1]], mesh_df[f].ids[e[2]]} :
              <<f, e>> \in {x \in FacesOf("window") \X TriangleEdges :
                  Flagged(wall, mesh_df[x[1]].ids[x[2][1]], mesh_df[x[1]].ids[x[2][2]])}}

\* C13: the window components found on a wall are exactly the components
\* with at least one vertex id that ends a flagged edge, the edges being
\* v1-v2, v2-v3 and v3-v1 of every window face; each is found once.
C13_WindowsOnWall ==
    pc = "constructed" =>
        \A w \in DOMAIN building_walls :
            /\ Range(windows_on_wall[w]) =
                  {g \in Range(window_graphs) :
                      g \cap FlaggedEndpoints(building_walls[w]) # {}}
            /\ Cardinality(Range(windows_on_wall[w])) = Len(windows_on_wall[w])

\* a window on a wall with vertices that end no flagged edge
C13_Witness ==
    /\ pc = "constructed"
    /\ \E w \in DOMAIN building_walls : \E i \in DOMAIN windows_on_wall[w] :
          /\ windows_on_wall[w][i] \cap FlaggedEndpoints(building_walls[w]) # {}
          /\ ~(windows_on_wall[w][i] \subseteq FlaggedEndpoints(building_walls[w]))


\* ========================================== two buildings, face by face
\* ---- .ply files of box buildings: every side of a box is a rectangle of
\* four vertices of its own, which carry the normal of the side, cut in two
\* triangles.
\* the two triangles of the rectangle of vertices base+1 .. base+4, cut along
\* one diagonal or the other, wound as the corners or against them
QuadFaces(base, diagonal, reversed) ==
    LET a == base + 1
        b == base + 2
        c == base + 3
        d == base + 4
        faces == IF diagonal = 1 THEN << <<a, b, c>>, <<a, c, d>> >>
                 ELSE << <<a, b, d>>, <<b, c, d>> >>
    IN  [i \in 1..2 |->
            IF reversed THEN << faces[i][1], faces[i][3], faces[i][2] >> ELSE faces[i]]

Quad(corners, normal, rgb) == [corners |-> corners, normal |-> normal, rgb |-> rgb]

\* the file of a sequence of rectangles
SceneOf(quads, diagonal, reversed) ==
    [points |-> FlattenSeq([q \in DOMAIN quads |->
                    [k \in 1..4 |-> PlyVertex(quads[q].corners[k], quads[q].normal,
                                               quads[q].rgb)]]),
     faces |-> FlattenSeq([q \in DOMAIN quads |->
                    QuadFaces(4 * (q - 1), diagonal, reversed)])]

\* the six sides of the box from corner lo to corner hi, in the order +x, -x,
\* +y, -y, +z, -z, with the colors rgbs; the corners of a side turn
\* counterclockwise seen from outside
BoxQuads(lo, hi, rgbs) ==
    << Quad(<< <<hi[1], lo[2], lo[3]>>, <<hi[1], hi[2], lo[3]>>,
               <<hi[1], hi[2], hi[3]>>, <<hi[1], lo[2], hi[3]>> >>, <<1, 0, 0>>, rgbs[1]),
       Quad(<< <<lo[1], lo[2], lo[3]>>, <<lo[1], lo[2], hi[3]>>,
               <<lo[1], hi[2], hi[3]>>, <<lo[1], hi[2], lo[3]>> >>, <<-1, 0, 0>>, rgbs[2]),
       Quad(<< <<lo[1], hi[2], lo[3]>>, <<lo[1], hi[2], hi[3]>>,
               <<hi[1], hi[2], hi[3]>>, <<hi[1], hi[2], lo[3]>> >>, <<0, 1, 0>>, rgbs[3]),
       Quad(<< <<lo[1], lo[2], lo[3]>>, <<hi[1], lo[2], lo[3]>>,
               <<hi[1], lo[2], hi[3]>>, <<lo[1], lo[2], hi[3]>> >>, <<0, -1, 0>>, rgbs[4]),
       Quad(<< <<lo[1], lo[2], hi[3]>>, <<hi[1], lo[2], hi[3]>>,
               <<hi[1], hi[2], hi[3]>>, <<lo[1], hi[2], hi[3]>> >>, <<0, 0, 1>>, rgbs[5]),
       Quad(<< <<lo[1], lo[2], lo[3]>>, <<lo[1], hi[2], lo[3]>>,
               <<hi[1], hi[2], lo[3]>>, <<hi[1], lo[2], lo[3]>> >>, <<0, 0, -1>>, rgbs[6]) >>

\* The unit cubes: 12 triangles, every vertex of the wall color, no window.
\* Their coordinates count half units, so that the centers of the walls are
\* whole numbers: the side of the cube is 2 and a unit of area is 4.
UnitCubes ==
    {SceneOf(BoxQuads(o, Add(o, <<2, 2, 2>>), [k \in 1..6 |-> WallRGB]), dg, rv) :
        o \in {<<0, 0, 0>>, <<2, 0, 0>>, <<-2, -2, 0>>},
        dg \in 1..2, rv \in BOOLEAN}

\* The 10 x 20 x 4 boxes, from (-5, -10, 0) to (5, 10, 4): the four sides of
\* the wall color, the top of the roof or of the wall color, and one window
\* of two triangles on the side x = 5, 4 wide and 2 high, or 2 wide and 4
\* high, away from the vertical edges of the side.
WindowRects ==
    {[y |-> <<y0, y0 + 4>>, z |-> <<1, 3>>] : y0 \in {-8, -2, 4}}
        \cup {[y |-> <<y0, y0 + 2>>, z |-> <<0, 4>>] : y0 \in {-6, 0}}

WindowQuad(r) ==
    Quad(<< <<5, r.y[1], r.z[1]>>, <<5, r.y[2], r.z[1]>>,
            <<5, r.y[2], r.z[2]>>, <<5, r.y[1], r.z[2]>> >>, <<1, 0, 0>>, WindowRGB)

BoxBuildings ==
    {SceneOf(BoxQuads(<<-5, -10, 0>>, <<5, 10, 4>>,
                      << WallRGB, WallRGB, WallRGB, WallRGB, top, WallRGB >>)
                 \o << WindowQuad(r) >>, dg, rv) :
        r \in WindowRects, top \in {WallRGB, <<0, 0, 4>>},
        dg \in 1..2, rv \in BOOLEAN}

\* The walls that stand askew to the world axes: one rectangle of the wall
\* color, 50 long and 20 high, from (0, 30, 0) to (40, 0, 20) with the unit
\* normal (0.6, 0.8, 0), or from (0, 0, 0) to (40, 30, 20) with the unit
\* normal (0.6, -0.8, 0).
SlantedWalls ==
    {SceneOf(<< q >>, dg, rv) :
        q \in { Quad(<< <<0, 30, 0>>, <<40, 0, 0>>, <<40, 0, 20>>, <<0, 30, 20>> >>,
                     <<3, 4, 0>>, WallRGB),
                Quad(<< <<0, 0, 0>>, <<40, 30, 0>>, <<40, 30, 20>>, <<0, 0, 20>> >>,
                     <<3, -4, 0>>, WallRGB) },
        dg \in 1..2, rv \in BOOLEAN}

\* The slabs that are all but level: one rectangle of the wall color, 2 wide
\* and 8192 long, that rises by 2 over its length.  The cross product of a
\* triangle of it is (0, -4, 16384), of length 16384 in single precision:
\* its unit normal is (0, -1/4096, 1).
TiltedSlabs ==
    {SceneOf(<< Quad(<< <<0, 0, 0>>, <<2, 0, 0>>, <<2, 8192, 2>>, <<0, 8192, 2>> >>,
                     <<0, 0, 1>>, WallRGB) >>, dg, rv) :
        dg \in 1..2, rv \in BOOLEAN}

\* the file of the model is the scene sc
LoadedFrom(sc) ==
    /\ meshes = sc.faces
    /\ ply_rgb = [i \in DOMAIN sc.points |-> sc.points[i].rgb]
    /\ [i \in DOMAIN points |-> points[i].pos]
          = [i \in DOMAIN sc.points |-> sc.points[i].pos]

SceneInit ==
    /\ pc = "start"
    /\ \E sc \in UnitCubes \cup BoxBuildings \cup SlantedWalls \cup TiltedSlabs :
          /\ meshes = sc.faces
          /\ points = [i \in DOMAIN sc.points |->
                          [pos |-> sc.points[i].pos,
                           normal |-> sc.points[i].normal,
                           rgb |-> sc.points[i].rgb,
                           seg_class |-> ""]]
    /\ ply_rgb = [i \in DOMAIN points |-> points[i].rgb]
    /\ seg_map = SegmentationMapping
    /\ mesh_df = <<>> /\ window_graphs = <<>> /\ building_walls = <<>>
    /\ wwr = [kind |-> "unset", n |-> 0, d |-> 0] /\ err = "none"
    /\ windows_on_wall = <<>> /\ window_areas = <<>>
    /\ all_window_area = 0 /\ all_wall_area = 0
    /\ QIdle /\ TIdle /\ FIdle /\ DIdle /\ OIdle

SpecScenes == SceneInit /\ [][MNext]_vars

IsUnitCube == \E sc \in UnitCubes : LoadedFrom(sc)

IsBoxBuilding == \E sc \in BoxBuildings : LoadedFrom(sc)

Zero == [kind |-> "num", n |-> 0, d |-> 1]

\* C14 as stated: a unit cube of wall color is constructed, its wall area is
\* 6 (24 quarter units) and its overall WWR is 0.
C14_UnitCubeWallArea6 ==
    IsUnitCube =>
        /\ pc # "failed"
        /\ wwr.kind # "unset" => all_wall_area = 24 /\ wwr = Zero

\* C14, amended: a unit cube of wall color is constructed, it has no window,
\* its wall area is 4 (16 quarter units: the four vertical sides of area 1
\* each, the top and the bottom are not counted) and its overall WWR is 0.
C14_UnitCubeSideWallArea ==
    IsUnitCube =>
        /\ pc # "failed"
        /\ pc = "constructed" =>
              /\ window_graphs = <<>>
              /\ Len(building_walls) = 4
              /\ \A w \in DOMAIN building_walls : building_walls[w].area = 4
        /\ wwr.kind # "unset" => all_wall_area = 16 /\ wwr = Zero

\* the WWR of a unit cube has been read
C14_Witness ==
    IsUnitCube /\ pc = "constructed" /\ wwr.kind # "unset" /\ Len(meshes) = 12

\* the walls of the model that face +x
WallsFacingX == {w \in DOMAIN building_walls : building_walls[w].direction = <<1, 0, 0>>}

C16_WindowArea ==
    wwr.kind # "unset" =>
        /\ Len(window_areas) = Len(window_graphs)
        /\ \A i \in DOMAIN window_graphs :
              /\ window_areas[i] = LargestBoxFace(window_graphs[i])
              /\ \A p \in {<<1, 2>>, <<1, 3>>, <<2, 3>>} :
                    window_areas[i] >= Extent(window_graphs[i], p[1])
                                          * Extent(window_graphs[i], p[2])
        /\ all_window_area = SumOver([i \in DOMAIN window_areas |-> window_areas[i]])

\* the areas of two window components have been added, one of them with a
\* bounding box whose faces differ in area
C16_Witness ==
    /\ wwr.kind # "unset" /\ Len(window_areas) >= 2 /\ all_window_area > window_areas[1]
    /\ \E i \in DOMAIN window_graphs :
          Extent(window_graphs[i], 1) * Extent(window_graphs[i], 2)
              < Extent(window_graphs[i], 2) * Extent(window_graphs[i], 3)


\* a WWR value that is a finite number >= 0
FiniteNonNegative(q) == q.kind = "num" /\ q.d > 0 /\ q.n >= 0

\* C17: in a constructed model the area of every face, wall and window
\* component and the totals are >= 0, and every WWR that has been computed,
\* per wall and overall, is a finite number >= 0.
C17_NonNegative ==
    pc = "constructed" =>
        /\ \A f \in DOMAIN mesh_df : mesh_df[f].face_normal_magnitude >= 0
        /\ \A w \in DOMAIN building_walls :
              /\ building_walls[w].area >= 0
              /\ FiniteNonNegative(building_walls[w].wwr)
        /\ wwr.kind # "unset" =>
              /\ \A i \in DOMAIN window_areas : window_areas[i] >= 0
              /\ all_window_area >= 0 /\ all_wall_area >= 0
              /\ FiniteNonNegative(wwr)

\* what the code keeps of C17: the areas are >= 0, the wwr of every wall is
\* a finite number >= 0, and the overall WWR is one when the wall area is
\* not 0
C17_NonNegativeAreas ==
    pc = "constructed" =>
        /\ \A f \in DOMAIN mesh_df : mesh_df[f].face_normal_magnitude >= 0
        /\ \A w \in DOMAIN building_walls :
              /\ building_walls[w].area > 0
              /\ FiniteNonNegative(building_walls[w].wwr)
        /\ wwr.kind # "unset" =>
              /\ \A i \in DOMAIN window_areas : window_areas[i] >= 0
              /\ all_window_area >= 0 /\ all_wall_area >= 0
              /\ all_wall_area # 0 => FiniteNonNegative(wwr)


\* ---- the order of the construction
\* the positions of the constructor, in the order of __init__: files read,
\* colors quantized, classes assigned, faces assembled, normals resolved,
\* windows grouped, walls partitioned, windows assigned and returned
Pipeline ==
    << "start", "loaded", "colors_fixed", "classes_assigned", "mesh_info",
       "normals", "windows", "walls", "constructed" >>

Stage == IF pc \in Range(Pipeline)
         THEN CHOOSE k \in DOMAIN Pipeline : Pipeline[k] = pc
         ELSE 0

Unset == [kind |-> "unset", n |-> 0, d |-> 0]

\* face f of the file has no area
ZeroArea(f) ==
    Cross(Sub(points[meshes[f][2]].pos, points[meshes[f][1]].pos),
          Sub(points[meshes[f][3]].pos, points[meshes[f][1]].pos)) = <<0, 0, 0>>

\* what each position of the constructor has computed, and nothing more
StageFields ==
    pc \in Range(Pipeline) =>
        /\ Stage >= 3 => \A i \in DOMAIN points :
                             \E k \in DOMAIN seg_map : points[i].rgb = seg_map[k].RGB
        /\ Stage < 4 => \A i \in DOMAIN points : points[i].seg_class = ""
        /\ Stage >= 4 => \A i \in DOMAIN points : points[i].seg_class # ""
        /\ Stage < 5 => mesh_df = <<>>
        /\ Stage >= 5 => Len(mesh_df) = Len(meshes)
        /\ Stage < 6 => \A f \in DOMAIN mesh_df : mesh_df[f].face_normal = NaNVector
        /\ Stage >= 6 => \A f \in DOMAIN mesh_df :
                             mesh_df[f].face_normal = NaNVector <=> ZeroArea(f)
        /\ Stage < 7 => window_graphs = <<>>
        /\ Stage >= 7 => UNION Range(window_graphs)
                             = UNION {FaceNodes(mesh_df, f) : f \in FacesOf("window")}
        /\ Stage < 8 => building_walls = <<>>
        /\ Stage < 9 => /\ windows_on_wall = <<>>
                        /\ \A w \in DOMAIN building_walls : building_walls[w].wwr = Unset
        /\ Stage = 9 => /\ Len(windows_on_wall) = Len(building_walls)
                        /\ \A w \in DOMAIN building_walls : building_walls[w].wwr # Unset

PipelineStep ==
    /\ (pc' # pc =>
            \/ pc' = "failed"
            \/ Stage >= 1 /\ Stage < 9 /\ pc' = Pipeline[Stage + 1])
    /\ (pc' = "constructed" /\ pc # "constructed" => wwr' = Unset)
    /\ (pc = "constructed" =>
            /\ (wwr = Unset => wwr' = wwr_property(points, mesh_df, window_graphs))
            /\ (wwr # Unset => wwr' = wwr)
            /\ UNCHANGED << pc, points, mesh_df, window_graphs, building_walls >>)

BackgroundColors ==
    {SegmentationMapping[k].RGB :
        k \in {j \in DOMAIN SegmentationMapping :
                  SegmentationMapping[j].name = "background"}}

\* the vertices that have exactly the background color in the .ply file
BackgroundVertices == {i \in DOMAIN ply_rgb : ply_rgb[i] \in BackgroundColors}

\* C19: a vertex whose color in the file is exactly the background color is
\* never given the class wall, window or roof, and no face of one of these
\* classes has such a vertex.
C19_BackgroundExcluded ==
    /\ \A i \in BackgroundVertices \cap DOMAIN points :
          points[i].seg_class \notin {"wall", "window", "roof"}
    /\ \A f \in DOMAIN mesh_df :
          mesh_df[f].seg_class \in {"wall", "window", "roof"} =>
              FaceNodes(mesh_df, f) \cap BackgroundVertices = {}


\* =========================================== the segmentation mapping
\* ---- the mapping files: json values
\* An ID of the file: an integer, or a string such as "1".
JsonInt(n) == [type |-> "int", v |-> n]

JsonStr(n) == [type |-> "str", v |-> n]

MappingIDs == { JsonInt(1), JsonInt(2), JsonStr(1) }

\* An RGB value of the file: a list of three integers, or of two.
MappingRGBs == { <<4, 0, 0>>, <<0, 4, 0>>, <<4, 0>> }

ClassNames == << "wall", "window", "roof" >>

\* the files with the first k classes, k = 1 .. MaxClasses, in file order
MappingFiles ==
    UNION {{[k \in 1..n |-> [name |-> ClassNames[k], ID |-> ids[k], RGB |-> rgbs[k]]] :
               ids \in [1..n -> MappingIDs], rgbs \in [1..n -> MappingRGBs]} :
           n \in 1..MaxClasses}

\* ---- Dataset._read_segmentation_info
\* the assertion that fails for one entry of the file, in the order of the
\* code: the ID, then the RGB
entry_assertion(val_dict) ==
    IF val_dict.ID.type # "int" THEN "ID must be an integer"
    ELSE IF Len(val_dict.RGB) # 3 THEN "RGB code must have three values"
    ELSE "none"

\* len(id_set) == total_num_ids
ids_unique(seg_mapping) ==
    Cardinality({seg_mapping[k].ID.v : k \in DOMAIN seg_mapping}) = Len(seg_mapping)

_read_segmentation_info(seg_mapping) ==
    LET bad == {k \in DOMAIN seg_mapping : entry_assertion(seg_mapping[k]) # "none"}
    IN  IF bad # {}
        THEN [err |-> "AssertionError", message |-> entry_assertion(seg_mapping[Min(bad)]),
              return_mapping |-> <<>>]
        ELSE IF ~ids_unique(seg_mapping)
        THEN [err |-> "AssertionError", message |-> "All classes must have unique IDs",
              return_mapping |-> <<>>]
        ELSE [err |-> "none", message |-> "",
              return_mapping |->
                  [k \in DOMAIN seg_mapping |->
                      [name |-> seg_mapping[k].name,
                       ID |-> seg_mapping[k].ID.v,
                       RGB |-> [c \in 1..3 |-> NpDivide(seg_mapping[k].RGB[c], 255)]]]]

\* One mapping file, read by the dataset driver and given to the
\* constructor of a Segmented3DModel with a .ply file of one wall face.
PaletteInit ==
    /\ d_pc = "start"
    /\ d_seg_mapping \in MappingFiles
    /\ d_return_mapping = <<>> /\ d_err = "none"
    /\ pc = "start"
    /\ meshes = << PlyFaces[1] >>
    /\ points = [i \in DOMAIN PlyPoints |->
                    [pos |-> PlyPoints[i].pos,
                     normal |-> PlyPoints[i].normal,
                     rgb |-> PlyPoints[i].rgb,
                     seg_class |-> ""]]
    /\ ply_rgb = [i \in DOMAIN points |-> points[i].rgb]
    /\ seg_map = d_seg_mapping
    /\ mesh_df = <<>> /\ window_graphs = <<>> /\ building_walls = <<>>
    /\ wwr = [kind |-> "unset", n |-> 0, d |-> 0] /\ err = "none"
    /\ windows_on_wall = <<>> /\ window_areas = <<>>
    /\ all_window_area = 0 /\ all_wall_area = 0
    /\ QIdle /\ TIdle /\ FIdle /\ OIdle

ReadSegmentationInfo ==
    /\ d_pc = "start"
    /\ LET r == _read_segmentation_info(d_seg_mapping) IN
        /\ d_err' = r.err
        /\ d_return_mapping' = r.return_mapping
        /\ d_pc' = IF r.err = "none" THEN "returned" ELSE "raised"
    /\ UNCHANGED << d_seg_mapping, qvars, tvars, mvars, fvars, ovars >>

PNext == ReadSegmentationInfo \/ MNext

SpecPalette == PaletteInit /\ [][PNext]_vars

\* two classes of the file have the same ID, an ID is not an integer, or an
\* RGB value is not a list of three integers
InvalidMapping(file) ==
    \/ \E j, k \in DOMAIN file : j # k /\ file[j].ID = file[k].ID
    \/ \E k \in DOMAIN file : file[k].ID.type # "int"
    \/ \E k \in DOMAIN file : Len(file[k].RGB) # 3

\* C20: an invalid mapping file is rejected with an error by
\* _read_segmentation_info, and by the constructor of Segmented3DModel once
\* it has read the file, before it derives anything from the model.
C20_InvalidMappingRejected ==
    InvalidMapping(d_seg_mapping) =>
        /\ d_pc \notin {"idle", "start"} =>
              d_pc = "raised" /\ d_err # "none" /\ d_return_mapping = <<>>
        /\ pc \notin {"idle", "start", "loaded"} => pc = "failed" /\ err # "none"

\* the part of C20 that the code satisfies: _read_segmentation_info raises
\* exactly for the invalid files, and returns every class otherwise
C20_DriverRejects ==
    d_pc \notin {"idle", "start"} =>
        /\ d_pc = "raised" <=> InvalidMapping(d_seg_mapping)
        /\ d_pc = "returned" => Len(d_return_mapping) = Len(d_seg_mapping)


\* ================================ the line and plane test, claim by claim
\* ---- the plane of a call and the sides of it
PlaneNormal(pp) == Cross(Sub(pp[2], pp[1]), Sub(pp[3], pp[1]))

\* a.x + b.y + c.z + d at the point p: 0 on the plane, of opposite signs on
\* the two sides of it
SideOf(pp, p) == Dot(PlaneNormal(pp), p) - Dot(PlaneNormal(pp), pp[1])

ParallelTo(pp, p0, p1) == Dot(Sub(p1, p0), PlaneNormal(pp)) = 0

InBox(p, box) ==
    /\ box[1][1] <= p[1] /\ p[1] <= box[1][2]
    /\ box[2][1] <= p[2] /\ p[2] <= box[2][2]
    /\ box[3][1] <= p[3] /\ p[3] <= box[3][2]

\* The line from p0 to p1 is not parallel to the plane and meets it between
\* its ends, at the point p0 + t.(p1 - p0) with t = -SideOf(p0) / den; the
\* point is compared with the box after a multiplication by den.
MeetsPlaneInBox(pp, p0, p1, box) ==
    LET den == SideOf(pp, p1) - SideOf(pp, p0)
        num == -SideOf(pp, p0)
        sgn == IF den > 0 THEN 1 ELSE -1
        at(axis) == (p0[axis] * den + num * (p1[axis] - p0[axis])) * sgn
    IN  /\ den # 0
        /\ SideOf(pp, p0) * SideOf(pp, p1) <= 0
        /\ \A axis \in 1..3 : /\ box[axis][1] * den * sgn <= at(axis)
                               /\ at(axis) <= box[axis][2] * den * sgn

\* the edges of the window faces, as pairs of vertex ids
WindowEdges ==
    {<< mesh_df[f].ids[e[1]], mesh_df[f].ids[e[2]] >> :
        <<f, e>> \in FacesOf("window") \X TriangleEdges}

C22_CrossingIffBetweenEnds ==
    f_pc = "returned" =>
        \A i \in DOMAIN f_results :
            ~ParallelTo(f_plane_points, f_vertices_1[i], f_vertices_2[i]) =>
                (f_results[i] <=>
                    SideOf(f_plane_points, f_vertices_1[i])
                        * SideOf(f_plane_points, f_vertices_2[i]) <= 0)

\* a flagged line that starts on the plane, outside the domain, and leaves it
C22_Witness ==
    /\ f_pc = "returned"
    /\ \E i \in DOMAIN f_results :
          /\ f_results[i]
          /\ ~ParallelTo(f_plane_points, f_vertices_1[i], f_vertices_2[i])
          /\ SideOf(f_plane_points, f_vertices_1[i]) = 0
          /\ ~InBox(f_vertices_1[i], f_domain)
          /\ ~InBox(f_vertices_2[i], f_domain)

\* C23: a line that is parallel to the plane is flagged exactly when both of
\* its ends are in the domain (bounds included), also in a call with lines
\* that are not parallel; the flag of a line is the flag it gets in a call of
\* its own.
C23_ParallelIffInDomain ==
    f_pc = "returned" =>
        /\ DOMAIN f_results = DOMAIN f_vertices_1
        /\ \A i \in DOMAIN f_results :
              /\ ParallelTo(f_plane_points, f_vertices_1[i], f_vertices_2[i]) =>
                    (f_results[i] <=> /\ InBox(f_vertices_1[i], f_domain)
                                      /\ InBox(f_vertices_2[i], f_domain))
              /\ f_results[i] =
                    find_if_line_and_plane_intersect(<< f_vertices_1[i] >>,
                        << f_vertices_2[i] >>, f_plane_points, f_domain)[1]

\* a call with a line that crosses the plane and a line in the plane that
\* leaves the domain: the second one is not flagged
C23_Witness ==
    /\ f_pc = "returned"
    /\ ~Collinear(f_plane_points)
    /\ \E i, j \in DOMAIN f_results :
          /\ ~ParallelTo(f_plane_points, f_vertices_1[i], f_vertices_2[i])
          /\ f_results[i]
          /\ ParallelTo(f_plane_points, f_vertices_1[j], f_vertices_2[j])
          /\ SideOf(f_plane_points, f_vertices_1[j]) = 0
          /\ InBox(f_vertices_1[j], f_domain)
          /\ ~InBox(f_vertices_2[j], f_domain)
          /\ ~f_results[j]


\* ---- the plane of a wall
\* the vertex ids of the faces of a wall
WallVertices(wall) == UNION {FaceNodes(mesh_df, f) : f \in Range(wall.faces)}

\* the plane through the three points that _get_windows_on_wall builds for
\* the wall is a plane, every vertex of the wall is on it and its normal is
\* parallel to the direction of the wall
ProbePlaneFlush(wall) ==
    LET pp == plane_points_of(wall)
    IN  /\ ~Collinear(pp)
        /\ \A n \in WallVertices(wall) : SideOf(pp, points[n].pos) = 0
        /\ Cross(PlaneNormal(pp), wall.direction) = <<0, 0, 0>>

AlongWorldAxis(direction) ==
    direction \in { <<1, 0, 0>>, <<-1, 0, 0>>, <<0, 1, 0>>, <<0, -1, 0>> }

\* C24 as stated: the probe plane of every wall of the partition lies flush
\* with the wall.
C24_ProbePlaneFlush ==
    Partitioned => \A w \in DOMAIN building_walls : ProbePlaneFlush(building_walls[w])

\* C24, amended: the probe plane of every wall of the partition that faces
\* along a world axis (+x, -x, +y or -y) lies flush with the wall: it is a
\* plane, every vertex of the faces of the wall is on it and its normal is
\* parallel to the direction of the wall.
C24_AxisWallProbePlaneFlush ==
    Partitioned =>
        \A w \in DOMAIN building_walls :
            AlongWorldAxis(building_walls[w].direction) =>
                ProbePlaneFlush(building_walls[w])

\* the four walls of a box, one per world axis direction
C24_Witness ==
    /\ Partitioned
    /\ {building_walls[w].direction : w \in DOMAIN building_walls}
          = { <<1, 0, 0>>, <<-1, 0, 0>>, <<0, 1, 0>>, <<0, -1, 0>> }
    /\ \A w \in DOMAIN building_walls : ProbePlaneFlush(building_walls[w])


\* ---- the face normals of a call that returned
\* the cross product of face i of the call
CrossOf(i) == Cross(t_in[i].AB, t_in[i].AC)

\* the vertex normals of face i that are more than 90 degrees from x
Against(i, x) == {v \in 1..3 : Dot(x, vertex_normals_of(t_in)[i][v]) < 0}

\* faces i and j are one triangle with its vertex normals, wound both ways
SwappedWinding(i, j) ==
    /\ t_in[i].AB = t_in[j].AC /\ t_in[i].AC = t_in[j].AB
    /\ vertex_normals_of(t_in)[i] = vertex_normals_of(t_in)[j]

\* C25: a call that returns gives every face its cross product AB x AC when
\* no vertex normal of the face is more than 90 degrees from it, and the
\* negated cross product when one is, whatever the other faces of the call;
\* a triangle whose vertex normals are all on one side gets the same normal
\* in both winding orders.
C25_FlipPerFace ==
    t_pc = "returned" =>
        /\ DOMAIN t_face_normals = DOMAIN t_in
        /\ \A i \in DOMAIN t_in :
              t_face_normals[i] = IF Against(i, CrossOf(i)) = {}
                                  THEN CrossOf(i) ELSE Neg(CrossOf(i))
        /\ \A i, j \in DOMAIN t_in :
              /\ SwappedWinding(i, j)
              /\ Against(i, CrossOf(i)) = {} \/ Against(i, Neg(CrossOf(i))) = {}
              => t_face_normals[i] = t_face_normals[j]

\* a call that returned the two windings of a triangle, one of them flipped,
\* with the same normal that is not zero
C25_Witness ==
    /\ t_pc = "returned"
    /\ \E i, j \in DOMAIN t_in :
          /\ SwappedWinding(i, j)
          /\ CrossOf(i) # <<0, 0, 0>>
          /\ t_face_normals[i] = CrossOf(i)
          /\ t_face_normals[j] = Neg(CrossOf(j))
          /\ t_face_normals[i] = t_face_normals[j]


\* ---- the connected components of the window faces
\* the vertex ids of a set of faces
NodesOf(F) == UNION {FaceNodes(mesh_df, f) : f \in F}

\* the window graphs have been computed
Grouped == pc \in {"windows", "walls", "constructed"}

\* C26: the components of a face subset (here the window faces) are, each
\* once, the vertex sets of the classes of faces linked by a chain of faces
\* of the subset in which consecutive faces share a vertex id: they are
\* pairwise disjoint, their union is the set of vertex ids of the subset and
\* the three vertices of a face are in one component.
C26_ComponentsAreClasses ==
    Grouped =>
        LET W == FacesOf("window")
            C == Range(window_graphs)
        IN  /\ C = {NodesOf(LinkedFaces(W, {f})) : f \in W}
            /\ Cardinality(C) = Len(window_graphs)
            /\ \A c1, c2 \in C : c1 # c2 => c1 \cap c2 = {}
            /\ UNION C = NodesOf(W)
            /\ \A f \in W : \E c \in C : FaceNodes(mesh_df, f) \subseteq c

\* a component with two faces that share no vertex id, linked by a third
C26_Witness ==
    /\ Grouped
    /\ \E f, g \in FacesOf("window") : \E i \in DOMAIN window_graphs :
          /\ ~SharesVertex(f, g)
          /\ FaceNodes(mesh_df, f) \cup FaceNodes(mesh_df, g) \subseteq window_graphs[i]


\* ---- the classes of the vertices
\* the entries of the mapping of exactly the color of vertex i
ExactEntries(i) ==
    {k \in DOMAIN seg_map : /\ seg_map[k].RGB[1] = points[i].rgb[1]
                             /\ seg_map[k].RGB[2] = points[i].rgb[2]
                             /\ seg_map[k].RGB[3] = points[i].rgb[3]}

FaceCross(f) ==
    Cross(Sub(points[mesh_df[f].ids[2]].pos, points[mesh_df[f].ids[1]].pos),
          Sub(points[mesh_df[f].ids[3]].pos, points[mesh_df[f].ids[1]].pos))

\* C28: for every wall, domain is the bounding box of the vertices of the
\* faces of the wall, center is the middle of that box on every axis,
\* direction is the unit normal that all the faces of the wall have, and
\* area is the sum over the faces of half the length of the cross product.
C28_WallFields ==
    Partitioned =>
        \A w \in DOMAIN building_walls :
            LET wall == building_walls[w]
                F == Range(wall.faces)
                coord(axis) == {points[n].pos[axis] : n \in NodesOf(F)}
            IN  /\ F # {}
                /\ \A axis \in 1..3 :
                      /\ wall.domain[axis] = << Min(coord(axis)), Max(coord(axis)) >>
                      /\ 2 * wall.center[axis] = Min(coord(axis)) + Max(coord(axis))
                /\ Dot(wall.direction, wall.direction) = 1
                /\ \A f \in F :
                      /\ Cross(wall.direction, FaceCross(f)) = <<0, 0, 0>>
                      /\ FaceCross(f) # <<0, 0, 0>>
                      /\ ~mesh_df[f].face_normal.nan
                      /\ mesh_df[f].face_normal.v = wall.direction
                /\ 2 * wall.area = SumOver([f \in F |-> Norm(FaceCross(f))])

\* a wall of two faces
C28_Witness ==
    /\ Partitioned
    /\ \E w \in DOMAIN building_walls : Len(building_walls[w].faces) >= 2


\* ---- the walls and the overall wall area
\* component axis of the unit normal of face f is the number value
UnitNormalIs(f, axis, value) ==
    /\ ~mesh_df[f].face_normal.nan
    /\ mesh_df[f].face_normal.v[axis] = value * Norm(mesh_df[f].face_normal.v)

\* the wall faces the partition takes: normal_z is not +1 or -1
PartitionFilter ==
    {f \in FacesOf("wall") : ~UnitNormalIs(f, 3, 1) /\ ~UnitNormalIs(f, 3, -1)}

\* the wall faces the overall wall area takes: normal x or y is not 0
OverallAreaFilter ==
    {f \in FacesOf("wall") : ~UnitNormalIs(f, 1, 0) \/ ~UnitNormalIs(f, 2, 0)}

At(k) == volumes[k + 1]

\* volumes.pop(j)
pop(list, k) == [n \in 1..(Len(list) - 1) |-> IF n <= k THEN list[n] ELSE list[n + 1]]

OInit ==
    /\ o_pc = "start"
    /\ volumes \in {[k \in 1..n |-> k] : n \in 0..MaxVolumes}
    /\ vol_i = 0 /\ vol_j = 0
    /\ o_colored = {} /\ o_joined = {} /\ o_err = "none"
    /\ QIdle /\ TIdle /\ MIdle /\ FIdle /\ DIdle

\* lines 363-366: a list of less than two volumes is left alone; i = 0
EnterRemoveOverlap ==
    /\ o_pc = "start"
    /\ IF Len(volumes) < 2
       THEN o_pc' = "returned" /\ vol_i' = vol_i
       ELSE o_pc' = "outer" /\ vol_i' = 0
    /\ UNCHANGED << volumes, vol_j, o_colored, o_joined, o_err,
                    qvars, tvars, mvars, fvars, dvars >>

\* lines 367-368: while i < len(volumes): j = i + 1
OuterLoop ==
    /\ o_pc = "outer"
    /\ IF vol_i < Len(volumes)
       THEN o_pc' = "inner" /\ vol_j' = vol_i + 1
       ELSE o_pc' = "returned" /\ vol_j' = vol_j
    /\ UNCHANGED << volumes, vol_i, o_colored, o_joined, o_err,
                    qvars, tvars, mvars, fvars, dvars >>

\* lines 369-373: j <= len(volumes), volumes[j] exists and the union is
\* made: the joined volume is popped, volumes[i] is recolored, the inner
\* loop is left and i += 1 (line 375)
UnionJoins ==
    /\ o_pc = "inner"
    /\ vol_j <= Len(volumes) /\ vol_j < Len(volumes)
    /\ o_joined' = o_joined \cup {<< At(vol_i), At(vol_j) >>}
    /\ volumes' = pop(volumes, vol_j)
    /\ o_colored' = o_colored \cup {At(vol_i)}
    /\ vol_i' = vol_i + 1
    /\ o_pc' = "outer"
    /\ UNCHANGED << vol_j, o_err, qvars, tvars, mvars, fvars, dvars >>

\* lines 369-370, 374: j <= len(volumes), volumes[j] exists and the two
\* meshes do not overlap: j += 1
UnionFails ==
    /\ o_pc = "inner"
    /\ vol_j <= Len(volumes) /\ vol_j < Len(volumes)
    /\ vol_j' = vol_j + 1
    /\ UNCHANGED << o_pc, volumes, vol_i, o_colored, o_joined, o_err,
                    qvars, tvars, mvars, fvars, dvars >>

\* lines 369-370, 375: the inner loop ends.  With j = len(volumes) the test
\* j <= len(volumes) passes and volumes[j] raises IndexError; with
\* j > len(volumes) the loop is left and i += 1.
InnerLoopEnd ==
    /\ o_pc = "inner"
    /\ ~(vol_j < Len(volumes))
    /\ IF vol_j <= Len(volumes)
       THEN o_pc' = "raised" /\ o_err' = "IndexError" /\ vol_i' = vol_i
       ELSE o_pc' = "outer" /\ o_err' = o_err /\ vol_i' = vol_i + 1
    /\ UNCHANGED << volumes, vol_j, o_colored, o_joined,
                    qvars, tvars, mvars, fvars, dvars >>

ONext ==
    \/ EnterRemoveOverlap
    \/ OuterLoop
    \/ UnionJoins
    \/ UnionFails
    \/ InnerLoopEnd

SpecOverlap == OInit /\ [][ONext]_vars

\* C30: a call of _remove_overlap_faces ends normally whatever the list and
\* the outcomes of the unions: it raises nothing, it reads the list only at
\* indices below its length, and every union that is made removes the
\* joined volume and no other.
C30_RemoveOverlapTerminates ==
    /\ o_pc # "raised"
    /\ o_pc = "inner" => vol_i < Len(volumes) /\ vol_j < Len(volumes)
    /\ o_pc # "idle" =>
          Range(volumes) = (1..(Len(volumes) + Cardinality(o_joined)))
                               \ {p[2] : p \in o_joined}

====
